---- MODULE Spec2Model ----
(***************************************************************************)
(* A model of ConvertRMMVTileFormatToTiledAutoTile.py: the script asks for *)
(* a file, opens it as an image, allocates a 192x96 RGB canvas filled with *)
(* (10,10,10), crops ten fixed rectangles out of the source and pastes     *)
(* each at a fixed rectangle of the canvas, then saves converted.png.      *)
(*                                                                         *)
(* An image is a record [size |-> <<w, h>>, px |-> column x -> row y ->    *)
(* RGB(r, g, b)]; a rectangle is the 4-tuple (left, top, right, bottom) of *)
(* the source.  The imaging library is modelled by what its calls do:      *)
(* crop never fails on a box that leaves the image and fills what lies     *)
(* outside with zeros, paste into a 4-tuple box demands a chunk of the     *)
(* box's size.  Source images are taken as decoded RGB rasters.            *)
(***************************************************************************)
EXTENDS Integers, Sequences, FiniteSets, TLC

VARIABLES
    pc,         \* position in the module body
    path,       \* what filedialog.askopenfilename() returned
    start_im,   \* the decoded source image (line 11)
    final_im,   \* the destination canvas (line 16)
    regions,    \* the list of source rectangles (line 41)
    fregions,   \* the list of destination rectangles (line 42)
    chunks,     \* the list of cropped chunks (line 43)
    todo,       \* what the iterator of range(len(regions)) has yet to yield
    i,          \* the loop variable (0-based, as in the source)
    converted,  \* the file converted.png on disk
    err,        \* the exception that ended the run, "" if none
    calls,      \* history: how often each library call has been made
    runs,       \* how many times the script has been started
    prev_path,  \* history: the path the previous run converted
    prev_out    \* history: the canvas the previous run ended with

vars == <<pc, path, start_im, final_im, regions, fregions, chunks, todo, i,
          converted, err, calls, runs, prev_path, prev_out>>

-----------------------------------------------------------------------------
(* Bounds of the model *)

\* source images are up to MaxShrink pixels narrower or lower than the ten
\* source rectangles need
MaxShrink == 1
\* and up to MaxGrow pixels wider and higher
MaxGrow == 1
\* the number of distinct pixel patterns the source images are drawn with
NumPatterns == 1

-----------------------------------------------------------------------------
(* Lines 14-42: the constants of the script *)

\* an RGB pixel, its three bytes packed as the library stores them
RGB(r, g, b) == r * 65536 + g * 256 + b

muted == RGB(10, 10, 10)
final_size == <<192, 96>>

c_lor == <<48, 0, 72, 24>>
c_lol == <<72, 0, 96, 24>>
c_upr == <<48, 24, 72, 48>>
c_upl == <<72, 24, 96, 48>>
e_up == <<24, 120, 72, 144>>
e_lo == <<24, 48, 72, 72>>
e_ri == <<72, 72, 96, 120>>
e_le == <<0, 72, 24, 120>>
center == <<24, 72, 72, 120>>
retain == <<0, 48, 96, 144>>

fc_lor == <<72, 72, 96, 96>>
fc_lol == <<0, 72, 24, 96>>
fc_upr == <<72, 0, 96, 24>>
fc_upl == <<0, 0, 24, 24>>
fe_up == <<24, 0, 72, 24>>
fe_lo == <<24, 72, 72, 96>>
fe_ri == <<0, 24, 24, 72>>
fe_le == <<72, 24, 96, 72>>
fcenter == <<24, 24, 72, 72>>
\* mutant: the last destination rectangle reaches into the left half
fretain_overlapping == <<72, 0, 168, 96>>
fretain == <<96, 0, 192, 96>>

\* mutant: the upper and the lower edge exchanged in the source list
regions_list_swapped == <<c_lor, c_lol, c_upr, c_upl, e_lo, e_up, e_ri, e_le, center, retain>>
regions_list == <<c_lor, c_lol, c_upr, c_upl, e_up, e_lo, e_ri, e_le, center, retain>>
fregions_list == <<fc_lor, fc_lol, fc_upr, fc_upl, fe_up, fe_lo, fe_ri, fe_le, fcenter, fretain>>

-----------------------------------------------------------------------------
(* Rectangles and images *)

BoxW(box) == box[3] - box[1]
BoxH(box) == box[4] - box[2]
InBox(box, x, y) == box[1] <= x /\ x < box[3] /\ box[2] <= y /\ y < box[4]

Black == RGB(0, 0, 0)
NoImage == [size |-> <<0, 0>>, px |-> <<>>]
InImage(im, x, y) == 0 <= x /\ x < im.size[1] /\ 0 <= y /\ y < im.size[2]

\* mutant: the colour argument dropped, the library's default fill is black
ImageNew_default(size, color) ==
    [size |-> size,
     px |-> [x \in 0..(size[1] - 1) |-> [y \in 0..(size[2] - 1) |-> Black]]]

\* mutant: width and height exchanged
ImageNew_transposed(size, color) ==
    [size |-> <<size[2], size[1]>>,
     px |-> [x \in 0..(size[2] - 1) |-> [y \in 0..(size[1] - 1) |-> color]]]

\* Image.new('RGB', size, color = color)
ImageNew(size, color) ==
    [size |-> size,
     px |-> [x \in 0..(size[1] - 1) |-> [y \in 0..(size[2] - 1) |-> color]]]

\* mutant: the chunk is taken from the image's left top, not from the box
crop_unshifted(im, box) ==
    [size |-> <<BoxW(box), BoxH(box)>>,
     px |-> [x \in 0..(BoxW(box) - 1) |-> [y \in 0..(BoxH(box) - 1) |->
                IF InImage(im, x, y) THEN im.px[x][y] ELSE Black]]]

\* mutant: the chunk starts one pixel left of the box
crop_shifted(im, box) ==
    [size |-> <<BoxW(box), BoxH(box)>>,
     px |-> [x \in 0..(BoxW(box) - 1) |-> [y \in 0..(BoxH(box) - 1) |->
                IF InImage(im, x + box[1] - 1, y + box[2])
                THEN im.px[x + box[1] - 1][y + box[2]]
                ELSE Black]]]

\* im.crop(box): a new image of the box's size; what the box takes from
\* outside the image is zero-filled
crop(im, box) ==
    [size |-> <<BoxW(box), BoxH(box)>>,
     px |-> [x \in 0..(BoxW(box) - 1) |-> [y \in 0..(BoxH(box) - 1) |->
                IF InImage(im, x + box[1], y + box[2])
                THEN im.px[x + box[1]][y + box[2]]
                ELSE Black]]]

\* crop raises on a box whose right or bottom precedes its left or top
CropRaises(box) == box[3] < box[1] \/ box[4] < box[2]

\* dst.paste(im, box) raises when the chunk has not the size of the box
PasteRaises(im, box) == im.size # <<BoxW(box), BoxH(box)>>

\* dst.paste(im, box): the chunk's pixel (0, 0) lands at the box's left top;
\* the canvas keeps its size and every pixel outside the box
paste(dst, im, box) ==
    [size |-> dst.size,
     px |-> [x \in 0..(dst.size[1] - 1) |->
                IF box[1] <= x /\ x < box[3]
                THEN [y \in 0..(dst.size[2] - 1) |->
                        IF box[2] <= y /\ y < box[4]
                        THEN im.px[x - box[1]][y - box[2]]
                        ELSE dst.px[x][y]]
                ELSE dst.px[x]]]

-----------------------------------------------------------------------------
(* The files the user can pick *)

RECURSIVE MaxOf(_, _, _)
MaxOf(seq, k, n) ==
    IF n = 0 THEN 0
    ELSE LET m == MaxOf(seq, k, n - 1) IN IF seq[n][k] > m THEN seq[n][k] ELSE m

\* the least source size in which every source rectangle lies
MinW == MaxOf(regions_list, 3, Len(regions_list))
MinH == MaxOf(regions_list, 4, Len(regions_list))

Sizes ==
    {<<MinW - a, MinH>> : a \in 1..MaxShrink}
    \cup {<<MinW, MinH - a>> : a \in 1..MaxShrink}
    \cup {<<MinW + a, MinH + a>> : a \in 0..MaxGrow}
    \cup {<<2 * MinW, MinH>>}

\* pattern p colours pixel (x, y) by its position, so that within the sizes
\* above no two pixels of an image have the same colour
PatternPixel(p, x, y) == RGB(x % 256, y % 256, (x + p * y) % 256)

\* the colour the k-th source rectangle is painted with in a test image
RectColor(k) == RGB(16 * k, 255 - 16 * k, k)
White == RGB(255, 255, 255)

Ascending == [n \in 1..Len(regions_list) |-> n]
Descending == [n \in 1..Len(regions_list) |-> Len(regions_list) + 1 - n]

Max(S) == CHOOSE m \in S : \A n \in S : m >= n
Min(S) == CHOOSE m \in S : \A n \in S : m <= n

\* the pixel of a "painted" test image: on white, the source rectangles are
\* filled one after the other, each with its own colour, in the order given
PaintedPixel(order, x, y) ==
    LET hits == {n \in 1..Len(order) : InBox(regions_list[order[n]], x, y)}
    IN  IF hits = {} THEN White ELSE RectColor(order[Max(hits)])

NoFile == [kind |-> "none", size |-> <<0, 0>>, pattern |-> 0, marked |-> FALSE]
\* the dialog was cancelled: askopenfilename() returns ''
Cancelled == [kind |-> "empty", size |-> <<0, 0>>, pattern |-> 0, marked |-> FALSE]
\* a path at which there is no file
Missing == [kind |-> "missing", size |-> <<0, 0>>, pattern |-> 0, marked |-> FALSE]
\* a file that is no image
NotImage == [kind |-> "notimage", size |-> <<0, 0>>, pattern |-> 0, marked |-> FALSE]

\* the pixel of a file's image: "plain" files are drawn with their pattern
\* everywhere; "marked" files differ from the plain ones exactly outside the
\* ten source rectangles
FilePixel(f, x, y) ==
    IF f.kind = "painted"
    THEN PaintedPixel(IF f.pattern = 1 THEN Ascending ELSE Descending, x, y)
    ELSE IF f.marked /\ ~(\E k \in 1..Len(regions_list) : InBox(regions_list[k], x, y))
    THEN RGB(255, 0, 255)
    ELSE PatternPixel(f.pattern, x, y)

Decode(f) ==
    [size |-> f.size,
     px |-> [x \in 0..(f.size[1] - 1) |-> [y \in 0..(f.size[2] - 1) |->
                FilePixel(f, x, y)]]]

PatternFiles ==
    [kind : {"image"}, size : Sizes, pattern : 1..NumPatterns, marked : BOOLEAN]
\* the painted test images: filled in ascending (1) or descending (2) order
PaintedFiles ==
    [kind : {"painted"}, size : {<<MinW, MinH>>}, pattern : {1, 2}, marked : {FALSE}]
ImageFiles == PatternFiles \cup PaintedFiles

Paths == ImageFiles \cup {Cancelled, Missing, NotImage}

\* converted.png: absent, or holding an image
Absent == [exists |-> FALSE, im |-> NoImage]
OldFile == [exists |-> TRUE, im |-> ImageNew(<<1, 1>>, Black)]

-----------------------------------------------------------------------------
(* The module body, one action per statement *)

NoCalls ==
    [ask |-> 0, open |-> 0, new |-> 0,
     crop |-> [k \in 1..Len(regions_list) |-> 0],
     paste |-> [k \in 1..Len(regions_list) |-> 0],
     save |-> 0]

Init ==
    /\ pc = "ask"
    /\ path = NoFile
    /\ start_im = NoImage
    /\ final_im = NoImage
    /\ regions = <<>>
    /\ fregions = <<>>
    /\ chunks = <<>>
    /\ todo = {}
    /\ i = -1
    /\ converted \in {Absent, OldFile}
    /\ err = ""
    /\ calls = NoCalls
    /\ runs = 1
    /\ prev_path = NoFile
    /\ prev_out = NoImage

\* line 11, the argument: filedialog.askopenfilename() returns one of S
AskFrom(S) ==
    /\ pc = "ask"
    /\ \E f \in S : path' = f
    /\ pc' = "open"
    /\ calls' = [calls EXCEPT !.ask = @ + 1]
    /\ UNCHANGED <<start_im, final_im, regions, fregions, chunks, todo, i,
                   converted, err, runs, prev_path, prev_out>>

\* the files a second run is given: the file of the first run again, or its
\* counterpart of the same pattern that differs from it outside the source
\* rectangles, at the same size or at the largest one
Related(f) ==
    {f} \cup {g \in PatternFiles :
                /\ f.kind = "image"
                /\ g.pattern = f.pattern
                /\ g.marked # f.marked
                /\ g.size \in {f.size, <<MinW + MaxGrow, MinH + MaxGrow>>}}

AskOpenFilename ==
    AskFrom(IF runs = 1 THEN Paths ELSE Related(prev_path))

\* mutant: a cancelled dialog is let through
OpenError_lenient(f) ==
    IF f.kind = "missing" THEN "FileNotFoundError"
    ELSE IF f.kind = "notimage" THEN "UnidentifiedImageError"
    ELSE ""

\* Image.open('') opens no file and fails on the string it was given
\* (AttributeError); it raises FileNotFoundError on a missing path and
\* UnidentifiedImageError on a file that is no image
OpenError(f) ==
    IF f.kind = "empty" THEN "AttributeError"
    ELSE IF f.kind = "missing" THEN "FileNotFoundError"
    ELSE IF f.kind = "notimage" THEN "UnidentifiedImageError"
    ELSE ""

\* line 11: start_im = Image.open(...)
ImageOpen ==
    /\ pc = "open"
    /\ IF OpenError(path) # ""
       THEN /\ pc' = "error"
            /\ err' = OpenError(path)
            /\ UNCHANGED <<start_im, calls>>
       ELSE /\ pc' = "new"
            /\ start_im' = Decode(path)
            /\ calls' = [calls EXCEPT !.open = @ + 1]
            /\ UNCHANGED err
    /\ UNCHANGED <<path, final_im, regions, fregions, chunks, todo, i,
                   converted, runs, prev_path, prev_out>>

\* lines 14-16: final_im = Image.new('RGB', final_size, color = muted)
NewCanvas ==
    /\ pc = "new"
    /\ final_im' = ImageNew(final_size, muted)
    /\ pc' = "setup"
    /\ calls' = [calls EXCEPT !.new = @ + 1]
    /\ UNCHANGED <<path, start_im, regions, fregions, chunks, todo, i,
                   converted, err, runs, prev_path, prev_out>>

\* lines 19-44: the two lists, chunks = list(range(10)), and the loop's
\* iterator over range(len(regions))
Setup ==
    /\ pc = "setup"
    /\ regions' = regions_list
    /\ fregions' = fregions_list
    /\ chunks' = [k \in 1..10 |-> k - 1]
    /\ todo' = 0..(Len(regions_list) - 1)
    /\ pc' = "for"
    /\ UNCHANGED <<path, start_im, final_im, i, converted, err, calls,
                   runs, prev_path, prev_out>>

\* line 44: for i in range(len(regions)), the iterator yields one of S
ForStep(S) ==
    /\ pc = "for"
    /\ todo # {}
    /\ \E j \in S :
          /\ i' = j
          /\ todo' = todo \ {j}
    /\ pc' = "crop"
    /\ UNCHANGED <<path, start_im, final_im, regions, fregions, chunks,
                   converted, err, calls, runs, prev_path, prev_out>>

\* mutant: the loop runs through the table backwards
NextIndex_descending(S) == {Max(S)}

\* the index the loop takes next: range() yields in ascending order
NextIndex(S) == {Min(S)}

ForNext == ForStep(NextIndex(todo))

\* line 44: the iterator is exhausted
ForEnd ==
    /\ pc = "for"
    /\ todo = {}
    /\ pc' = "save"
    /\ UNCHANGED <<path, start_im, final_im, regions, fregions, chunks, todo, i,
                   converted, err, calls, runs, prev_path, prev_out>>

\* line 45: chunks[i] = start_im.crop(regions[i])
Crop ==
    /\ pc = "crop"
    /\ IF CropRaises(regions[i + 1])
       THEN /\ pc' = "error"
            /\ err' = "ValueError"
            /\ UNCHANGED <<chunks, calls>>
       ELSE /\ chunks' = [chunks EXCEPT ![i + 1] = crop(start_im, regions[i + 1])]
            /\ pc' = "paste"
            /\ calls' = [calls EXCEPT !.crop[i + 1] = @ + 1]
            /\ UNCHANGED err
    /\ UNCHANGED <<path, start_im, final_im, regions, fregions, todo, i,
                   converted, runs, prev_path, prev_out>>

\* line 46: final_im.paste(chunks[i], fregions[i])
Paste ==
    /\ pc = "paste"
    /\ IF PasteRaises(chunks[i + 1], fregions[i + 1])
       THEN /\ pc' = "error"
            /\ err' = "ValueError"
            /\ UNCHANGED <<final_im, calls>>
       ELSE /\ final_im' = paste(final_im, chunks[i + 1], fregions[i + 1])
            /\ pc' = "for"
            /\ calls' = [calls EXCEPT !.paste[i + 1] = @ + 1]
            /\ UNCHANGED err
    /\ UNCHANGED <<path, start_im, regions, fregions, chunks, todo, i,
                   converted, runs, prev_path, prev_out>>

\* line 49: final_im.save('converted.png')
Save ==
    /\ pc = "save"
    /\ converted' = [exists |-> TRUE, im |-> final_im]
    /\ pc' = "done"
    /\ calls' = [calls EXCEPT !.save = @ + 1]
    /\ UNCHANGED <<path, start_im, final_im, regions, fregions, chunks, todo, i,
                   err, runs, prev_path, prev_out>>

Next ==
    \/ AskOpenFilename
    \/ ImageOpen
    \/ NewCanvas
    \/ Setup
    \/ ForNext
    \/ ForEnd
    \/ Crop
    \/ Paste
    \/ Save

Spec == Init /\ [][Next]_vars

\* The script is a single thread that runs to its end: no statement waits
\* once the dialog has returned.
FairSpec == Spec /\ WF_vars(Next)

-----------------------------------------------------------------------------
(* The script run a second time: a fresh process, the same disk *)

Rerun ==
    /\ pc = "done"
    /\ runs = 1
    /\ runs' = runs + 1
    /\ prev_path' = path
    /\ prev_out' = final_im
    /\ pc' = "ask"
    /\ path' = NoFile
    /\ start_im' = NoImage
    /\ final_im' = NoImage
    /\ regions' = <<>>
    /\ fregions' = <<>>
    /\ chunks' = <<>>
    /\ todo' = {}
    /\ i' = -1
    /\ err' = ""
    /\ calls' = NoCalls
    /\ UNCHANGED converted

NextRerun == Next \/ Rerun

SpecRerun == Init /\ [][NextRerun]_vars

-----------------------------------------------------------------------------
(* The loop taking the ten pairs in any order *)

\* the one file these runs convert
PermPaths == {[kind |-> "image", size |-> <<MinW, MinH>>, pattern |-> 1, marked |-> FALSE]}

AskPerm == AskFrom(PermPaths)

ForAny == ForStep(todo)

NextPerm ==
    \/ AskPerm
    \/ ImageOpen
    \/ NewCanvas
    \/ Setup
    \/ ForAny
    \/ ForEnd
    \/ Crop
    \/ Paste
    \/ Save

InitPerm == Init /\ converted = Absent

SpecPerm == InitPerm /\ [][NextPerm]_vars

-----------------------------------------------------------------------------
(* Properties *)

\* the source image has at least the 96x144 pixels the format assumes
ValidSource ==
    /\ start_im # NoImage
    /\ start_im.size[1] >= 96
    /\ start_im.size[2] >= 144

SmallSource ==
    /\ start_im # NoImage
    /\ (start_im.size[1] < 96 \/ start_im.size[2] < 144)

\* the pixels of a rectangle
Xs(box) == box[1]..(box[3] - 1)
Ys(box) == box[2]..(box[4] - 1)

\* every pixel of box in image im has colour c
Solid(im, box, c) ==
    \A x \in Xs(box) : \A y \in Ys(box) : InImage(im, x, y) /\ im.px[x][y] = c

\* image im is a full raster of the given size
HasShape(im, size) ==
    /\ im.size = size
    /\ DOMAIN im.px = 0..(size[1] - 1)
    /\ \A x \in DOMAIN im.px : DOMAIN im.px[x] = 0..(size[2] - 1)

\* the pairs whose paste has been made
Pasted == {k \in 1..Len(fregions) : calls.paste[k] > 0}

\* C1 (region fidelity): after a run on a source of at least 96x144 pixels,
\* every pixel (x, y) of every destination rectangle k holds the source pixel
\* at the same offset within source rectangle k.
C1_RegionFidelity ==
    (pc = "done" /\ ValidSource) =>
        \A k \in 1..10 :
            \A x \in Xs(fregions[k]) : \A y \in Ys(fregions[k]) :
                final_im.px[x][y] =
                    start_im.px[x - fregions[k][1] + regions[k][1]]
                               [y - fregions[k][2] + regions[k][2]]

C1_Witness ==
    /\ pc = "done"
    /\ ValidSource
    /\ path.kind = "image"
    /\ final_im.px[191][95] = start_im.px[95][143]
    /\ final_im.px[191][95] # final_im.px[0][0]

\* C2 (bounds rejection), as claimed: a run on a source smaller than 96x144
\* never gets to the save and writes no converted.png.
C2_BoundsRejection ==
    SmallSource => (pc # "done" /\ calls.save = 0 /\ converted \in {Absent, OldFile})

\* C3 (end to end), as claimed: for the test image with the ten source
\* rectangles painted in ten colours, every destination rectangle k is a
\* solid block of colour k and every other pixel is (10,10,10).
C3_EndToEnd_AsClaimed ==
    (pc = "done" /\ path.kind = "painted") =>
        /\ HasShape(converted.im, <<192, 96>>)
        /\ \A k \in 1..10 : Solid(converted.im, fregions[k], RectColor(k))
        /\ \A x \in 0..191 : \A y \in 0..95 :
              (\A k \in 1..10 : ~InBox(fregions[k], x, y)) =>
                  converted.im.px[x][y] = RGB(10, 10, 10)

\* C3, amended: the written image is 192x96; destination rectangle k is a
\* solid block of colour k for every k whose source rectangle is in fact
\* solid in colour k in the source (rectangles 5..9 lie inside rectangle 10,
\* so not all ten can be); every pixel in no destination rectangle is
\* (10,10,10).
C3_EndToEnd ==
    (pc = "done" /\ ValidSource) =>
        /\ HasShape(converted.im, <<192, 96>>)
        /\ \A k \in 1..10 :
              Solid(start_im, regions[k], RectColor(k)) =>
                  Solid(converted.im, fregions[k], RectColor(k))
        /\ \A x \in 0..191 : \A y \in 0..95 :
              (\A k \in 1..10 : ~InBox(fregions[k], x, y)) =>
                  converted.im.px[x][y] = RGB(10, 10, 10)

\* the image painted in ascending order: source rectangles 1..4 and 10 are
\* solid, and the output shows colours 1..4 and 10 (colour 10 also in 5..9)
C3_Witness ==
    /\ pc = "done"
    /\ path.kind = "painted"
    /\ Solid(start_im, regions[1], RectColor(1))
    /\ Solid(start_im, regions[10], RectColor(10))
    /\ Solid(converted.im, fregions[1], RectColor(1))
    /\ Solid(converted.im, fregions[10], RectColor(10))
    /\ Solid(converted.im, fregions[5], RectColor(10))

\* C4 (background preservation): from the allocation of the canvas on, every
\* canvas pixel outside all destination rectangles pasted so far is
\* (10,10,10).
C4_BackgroundPreservation ==
    final_im # NoImage =>
        \A x \in 0..191 : \A y \in 0..95 :
            (\A k \in Pasted : ~InBox(fregions[k], x, y)) =>
                final_im.px[x][y] = RGB(10, 10, 10)

C4_Witness ==
    /\ pc = "for"
    /\ Pasted = 1..4
    /\ final_im.px[30][30] = RGB(10, 10, 10)
    /\ final_im.px[0][0] # RGB(10, 10, 10)

\* C5 (canvas shape): for a source of at least 96x144 pixels the canvas is
\* 192x96 from its allocation through every paste, and so is the written
\* image.
C5_CanvasShape ==
    ValidSource =>
        /\ final_im # NoImage => HasShape(final_im, <<192, 96>>)
        /\ pc = "done" => HasShape(converted.im, <<192, 96>>)

C5_Witness ==
    /\ pc = "done"
    /\ ValidSource
    /\ start_im.size # <<96, 144>>
    /\ Pasted = 1..10
    /\ converted.im = final_im

\* two images agree on every pixel of the ten source rectangles
AgreeOnRects(a, b) ==
    \A k \in 1..Len(regions_list) :
        \A x \in Xs(regions_list[k]) : \A y \in Ys(regions_list[k]) :
            a.px[x][y] = b.px[x][y]

PrevValid ==
    /\ prev_path.kind \in {"image", "painted"}
    /\ prev_path.size[1] >= 96
    /\ prev_path.size[2] >= 144

\* C6 (determinism): a second run whose valid source agrees with the first
\* run's valid source on the pixels of the ten source rectangles (the same
\* file in particular) ends with the canvas the first run ended with.
C6_Determinism ==
    (runs = 2 /\ pc = "done" /\ ValidSource /\ PrevValid
        /\ AgreeOnRects(Decode(prev_path), start_im)) =>
            final_im = prev_out

\* a second run on a file of another size that differs from the first one
\* outside the source rectangles
C6_Witness ==
    /\ runs = 2
    /\ pc = "done"
    /\ ValidSource
    /\ PrevValid
    /\ path.marked /\ ~prev_path.marked
    /\ path.size # prev_path.size
    /\ start_im.px[0][0] # Decode(prev_path).px[0][0]
    /\ final_im = prev_out

BadPath == path.kind \in {"empty", "missing", "notimage"}

\* C7 (abort on a cancelled dialog or an undecodable path): once Image.open
\* has been given such a path the run has ended in an error, with no image,
\* no canvas, no crop, no paste and no save; and no step taken with such a
\* path changes converted.png.
C7_AbortOnBadPath ==
    /\ []((BadPath /\ pc # "open") =>
            /\ pc = "error"
            /\ err # ""
            /\ start_im = NoImage
            /\ final_im = NoImage
            /\ calls.open = 0
            /\ \A k \in 1..10 : calls.crop[k] = 0 /\ calls.paste[k] = 0
            /\ calls.save = 0)
    /\ [][BadPath' => converted' = converted]_vars

C7_Witness ==
    /\ pc = "error"
    /\ path = Cancelled
    /\ err = "AttributeError"
    /\ converted = OldFile

\* the region table of the specification
SpecSourceRects ==
    << <<48, 0, 72, 24>>, <<72, 0, 96, 24>>, <<48, 24, 72, 48>>, <<72, 24, 96, 48>>,
       <<24, 120, 72, 144>>, <<24, 48, 72, 72>>, <<72, 72, 96, 120>>,
       <<0, 72, 24, 120>>, <<24, 72, 72, 120>>, <<0, 48, 96, 144>> >>
SpecDestRects ==
    << <<72, 72, 96, 96>>, <<0, 72, 24, 96>>, <<72, 0, 96, 24>>, <<0, 0, 24, 24>>,
       <<24, 0, 72, 24>>, <<24, 72, 72, 96>>, <<0, 24, 24, 72>>,
       <<72, 24, 96, 72>>, <<24, 24, 72, 72>>, <<96, 0, 192, 96>> >>

\* box lies within a w x h raster and is not empty
Within(box, w, h) ==
    /\ 0 <= box[1] /\ box[1] < box[3] /\ box[3] <= w
    /\ 0 <= box[2] /\ box[2] < box[4] /\ box[4] <= h

\* C8 (region mapping bounds): once built, the two lists hold exactly the
\* ten pairs of the specification's table, in its order; every source
\* rectangle lies within 96x144 and every destination rectangle within
\* 192x96.
C8_RegionMappingBounds ==
    (pc \in {"for", "crop", "paste", "save", "done"}) =>
        /\ Len(regions) = 10 /\ Len(fregions) = 10
        /\ regions = SpecSourceRects
        /\ fregions = SpecDestRects
        /\ \A k \in 1..10 : Within(regions[k], 96, 144)
        /\ \A k \in 1..10 : Within(fregions[k], 192, 96)

C8_Witness ==
    /\ pc = "crop"
    /\ i = 9
    /\ regions[i + 1] = <<0, 48, 96, 144>>
    /\ fregions[i + 1] = <<96, 0, 192, 96>>

\* the calls made so far are a prefix of: ask, open, new, then crop k and
\* at once paste k for k = 1..10 in table order, then one save
InOrderSoFar ==
    /\ calls.ask <= 1 /\ calls.open <= calls.ask /\ calls.new <= calls.open
    /\ \A k \in 1..10 :
          /\ calls.crop[k] <= calls.new
          /\ calls.paste[k] <= calls.crop[k]
          \* between crop k and paste k nothing else happens
          /\ (calls.crop[k] = 1 /\ calls.paste[k] = 0) => (pc = "paste" /\ i + 1 = k)
          \* crop k comes after paste j for every j before k in the table
          /\ \A j \in 1..(k - 1) : calls.crop[k] <= calls.paste[j]
          /\ calls.save <= calls.paste[k]
    /\ calls.save <= 1
    /\ (calls.save = 1) <=> (pc = "done")

\* C9 (linear single pass): the steps occur in the order ask, open, new,
\* crop 1, paste 1, ..., crop 10, paste 10, save, each at most once, the save
\* only after all ten pastes; and a run that has opened a valid source
\* reaches the end, having saved once.
C9_LinearSinglePass ==
    /\ []InOrderSoFar
    /\ (pc = "new" /\ ValidSource) ~> (pc = "done" /\ calls.save = 1)

C9_Witness ==
    /\ pc = "done"
    /\ ValidSource
    /\ calls.ask = 1 /\ calls.open = 1 /\ calls.new = 1 /\ calls.save = 1
    /\ \A k \in 1..10 : calls.crop[k] = 1 /\ calls.paste[k] = 1
    /\ todo = {}

Disjoint(a, b) ==
    a[3] <= b[1] \/ b[3] <= a[1] \/ a[4] <= b[2] \/ b[4] <= a[2]

RECURSIVE AreaSum(_, _)
AreaSum(boxes, n) ==
    IF n = 0 THEN 0 ELSE AreaSum(boxes, n - 1) + BoxW(boxes[n]) * BoxH(boxes[n])

\* the canvas after the ten pairs have been cropped and pasted in table order
RECURSIVE PastedInOrder(_, _)
PastedInOrder(im, n) ==
    IF n = 0 THEN ImageNew(final_size, muted)
    ELSE paste(PastedInOrder(im, n - 1), crop(im, regions_list[n]), fregions_list[n])

\* C10: in each pair the two rectangles have the same width and height; the
\* ten destination rectangles are pairwise disjoint and cover the 192x96
\* canvas (they lie within it and their areas add up to 192 * 96), so that
\* at the end every canvas pixel lies in exactly one pasted rectangle; and
\* whatever the order in which the loop takes the ten pairs, the final canvas
\* is the one the table order gives.
C10_OrderIndependence ==
    /\ regions # <<>> =>
          /\ \A k \in 1..10 :
                /\ BoxW(regions[k]) = BoxW(fregions[k])
                /\ BoxH(regions[k]) = BoxH(fregions[k])
                /\ Within(fregions[k], 192, 96)
          /\ \A j, k \in 1..10 : j # k => Disjoint(fregions[j], fregions[k])
          /\ AreaSum(fregions, 10) = 192 * 96
    /\ pc = "done" =>
          /\ \A x \in 0..191 : \A y \in 0..95 :
                Cardinality({k \in Pasted : InBox(fregions[k], x, y)}) = 1
          /\ final_im = PastedInOrder(start_im, 10)

\* a run whose loop took the first pair of the table last
C10_Witness ==
    /\ pc = "done"
    /\ i = 0
    /\ Pasted = 1..10
    /\ final_im.px[191][95] = start_im.px[95][143]

====
